---- MODULE Spec2Model ----
(***************************************************************************)
(* A model of CliHelper (src/clihelper.py): the option tree, the menu      *)
(* traversal protocol of _OptionNode (ENTER / RETURN / QUIT codes carried  *)
(* by nested _enter_next_level calls) and the request_input loop.          *)
(*                                                                         *)
(* A line of input is a sequence of characters.  A Python exception that   *)
(* escapes to the caller is recorded as phase "crashed" and an event       *)
(* carrying the exception's name.                                          *)
(***************************************************************************)
EXTENDS Integers, Sequences, FiniteSets, TLC

VARIABLES
    nodes,         \* the _OptionNode objects, by creation order; nodes[1] is the CliHelper root
    menu_configs,  \* the MenuConfig dict objects, by reference
    phase,         \* "build" | "run" | "done" | "crashed"
    frames,        \* the live _enter_next_level calls, outermost first
    events,        \* what the user has seen and done so far, oldest first
    calls,         \* the exec_func calls made by the traversal, with their arguments, oldest first
    inputs,        \* number of input lines read so far
    req,           \* the live request_input calls, outermost first
    result,        \* the (value, accepted) pair of the finished outer request_input
    rlog           \* what request_input has printed, read and consulted so far

vars == <<nodes, menu_configs, phase, frames, events, calls, inputs, req, result, rlog>>

menuvars == <<nodes, menu_configs, frames, events, calls>>
reqvars == <<req, result, rlog>>

\* ------------------------------------------------------------------ bounds
MaxNodes == 4
MaxInputs == 3
MaxScenarioInputs == 4
MaxReqInputs == 3
MaxConfirmInputs == 4

\* ------------------------------------------------------- strings and lines
EmptyLine == <<>>

\* characters for which str.isdecimal() holds, with their int() value
DecimalValue == ("0" :> 0) @@ ("1" :> 1) @@ ("2" :> 2) @@ ("3" :> 3) @@ ("4" :> 4)
                @@ ("5" :> 5) @@ ("6" :> 6) @@ ("7" :> 7) @@ ("8" :> 8) @@ ("9" :> 9)

DecimalChars == DOMAIN DecimalValue

\* U+00B2 SUPERSCRIPT TWO: str.isdigit() holds, str.isdecimal() does not
SuperscriptChars == {"sup2"}

\* str.isdigit(): non-empty and every character is a digit character
str_isdigit(x) == Len(x) > 0 /\ \A i \in 1..Len(x) : x[i] \in DecimalChars \cup SuperscriptChars

\* int(x) raises ValueError unless every character is a decimal character
int_raises(x) == Len(x) = 0 \/ \E i \in 1..Len(x) : x[i] \notin DecimalChars

RECURSIVE int_value(_)
int_value(x) ==
    IF Len(x) = 0 THEN 0
    ELSE 10 * int_value(SubSeq(x, 1, Len(x) - 1)) + DecimalValue[x[Len(x)]]

LowerChar == ("Y" :> "y") @@ ("N" :> "n") @@ ("E" :> "e") @@ ("S" :> "s") @@ ("O" :> "o")

\* str.lower()
str_lower(x) == [i \in 1..Len(x) |-> IF x[i] \in DOMAIN LowerChar THEN LowerChar[x[i]] ELSE x[i]]

\* ------------------------------------------------------------ check_func
\* A check_func is named by fn; n is the captured len(self.children) of the
\* menu's check.  The outcome is "True", "False" or the exception raised.
NoCheck == [fn |-> "None", n |-> 0]
ConfirmCheck == [fn |-> "confirm", n |-> 0]
TestReqCheck == [fn |-> "test_req", n |-> 0]
OptionCheck(n) == [fn |-> "option", n |-> n]

Bool(b) == IF b THEN "True" ELSE "False"

\* x.lower() in ("y", "yes", "n", "no")
confirm_check(x) ==
    Bool(str_lower(x) \in {<<"y">>, <<"y", "e", "s">>, <<"n">>, <<"n", "o">>})

\* x.isdigit() and lo <= int(x) <= hi
digit_range_check(x, lo, hi) ==
    IF ~str_isdigit(x) THEN "False"
    ELSE IF int_raises(x) THEN "ValueError"
    ELSE Bool(lo <= int_value(x) /\ int_value(x) <= hi)

check_func_call(cf, x) ==
    CASE cf.fn = "confirm" -> confirm_check(x)
      [] cf.fn = "option" -> digit_range_check(x, 1, cf.n)
      [] cf.fn = "test_req" -> digit_range_check(x, 2, 9)
      [] OTHER -> "True"

\* ---------------------------------------------------- request_input, one read
\* a slip: the default is used for an empty line even without has_default_val
read_input_val_ignores_flag(p, raw) == IF raw # EmptyLine THEN raw ELSE p.default_val

\* input() or default_val  /  input(": ")
read_input_val(p, raw) ==
    IF p.has_default_val
    THEN IF raw # EmptyLine THEN raw ELSE p.default_val
    ELSE raw

Returned(v, ok) == [kind |-> "return", value |-> v, state |-> ok]

\* the validation tail of one loop iteration, for candidate v
validate(p, v) ==
    IF p.check_func.fn = "None" THEN Returned(v, TRUE)
    ELSE LET c == check_func_call(p.check_func, v) IN
         IF c = "ValueError" THEN [kind |-> "ValueError", value |-> v, state |-> FALSE]
         ELSE IF c = "False"
              THEN IF p.ask_again
                   THEN [kind |-> "again", value |-> v, state |-> FALSE]
                   ELSE Returned(EmptyLine, FALSE)
              ELSE Returned(v, TRUE)

\* a slip: the confirmation is asked before the quit value is looked at
request_step_confirms_first(p, raw) ==
    LET input_val == read_input_val(p, raw) IN
    IF p.need_confirm THEN [kind |-> "confirm", value |-> input_val, state |-> FALSE]
    ELSE IF p.has_quit_val /\ input_val = p.quit_val THEN Returned(EmptyLine, FALSE)
    ELSE validate(p, input_val)

\* one loop iteration up to the confirmation call
request_step(p, raw) ==
    LET input_val == read_input_val(p, raw) IN
    IF p.has_quit_val /\ input_val = p.quit_val THEN Returned(EmptyLine, FALSE)
    ELSE IF p.need_confirm THEN [kind |-> "confirm", value |-> input_val, state |-> FALSE]
    ELSE validate(p, input_val)

\* ------------------------------------------------------------- menu config
DEFAULT_MENU_CONFIG ==
    [left_padding |-> 2, right_padding |-> 10, top_padding |-> 1, bottom_padding |-> 1,
     edge_char |-> "#", wall_char |-> " ", serial_marker |-> ". ", draw_menu_again |-> FALSE]

\* the dict test_helper passes
TestHelperConfig == [right_padding |-> 20, serial_marker |-> "->"]

RedrawConfig == [DEFAULT_MENU_CONFIG EXCEPT !.draw_menu_again = TRUE]

NoLeftPaddingConfig ==
    [right_padding |-> 10, top_padding |-> 1, bottom_padding |-> 1,
     edge_char |-> "#", wall_char |-> " ", serial_marker |-> ". ", draw_menu_again |-> FALSE]

\* MenuConfig is a TypedDict with total=False: any subset of the keys
MenuConfigArgs ==
    {[given |-> FALSE, dict |-> DEFAULT_MENU_CONFIG]}
    \cup {[given |-> TRUE, dict |-> d] :
            d \in {RedrawConfig, TestHelperConfig, NoLeftPaddingConfig}}

\* the keys _draw_menu reads, in the order it reads them
DrawKeys == <<"left_padding", "right_padding", "top_padding", "bottom_padding",
              "edge_char", "wall_char", "serial_marker">>

\* --------------------------------------------------------------- the codes
RETURN_CODE == 47806
ENTER_CODE == 48879
QUIT_CODE == 51966
\* Python's None, as a frame's state and as a host action's return value
None == 0

\* -------------------------------------------------------------- exec_func
DefaultFunc == [fn |-> "default_func", self |-> 0]
EnterNextLevel(n) == [fn |-> "enter_next_level", self |-> n]
ReturnPreviousLevel(n) == [fn |-> "return_previous_level", self |-> n]
QuitingLevel(n) == [fn |-> "quiting_level", self |-> n]
OpenFile == [fn |-> "open_file", self |-> 0]
NewFolder == [fn |-> "new_folder", self |-> 0]

Marker == " [d]"

\* the host's add_option calls: title, exec_func (None: not given), args, kwargs
HostOptions ==
    {[title |-> <<"New">>, given |-> FALSE, exec_func |-> DefaultFunc, args |-> <<>>, kwargs |-> <<>>],
     [title |-> <<"Open File">>, given |-> TRUE, exec_func |-> OpenFile, args |-> <<>>, kwargs |-> <<>>]}

\* _OptionNode.__init__
OptionNode(title, given, exec_func, args, kwargs, menu_config, is_root) ==
    [title |-> title,
     exec_func |-> IF given THEN exec_func ELSE DefaultFunc,
     args |-> args,
     kwargs |-> kwargs,
     menu_config |-> menu_config,
     children |-> <<>>,
     is_root |-> is_root]

\* title.endswith(" [d]")
EndsWithMarker(title) == Len(title) > 0 /\ title[Len(title)] = Marker

\* a slip: the parent's exec_func is not rebound
add_option_keeps_exec_func(t, self, title, given, exec_func, args, kwargs) ==
    LET id == Len(t) + 1
        option == OptionNode(title, given, exec_func, args, kwargs, t[self].menu_config, FALSE)
        parent == [t[self] EXCEPT
                     !.title = IF EndsWithMarker(@) THEN @ ELSE Append(@, Marker),
                     !.children = Append(@, id)]
    IN Append([t EXCEPT ![self] = parent], option)

\* a slip: the marker is appended on every call
add_option_always_marks(t, self, title, given, exec_func, args, kwargs) ==
    LET id == Len(t) + 1
        option == OptionNode(title, given, exec_func, args, kwargs, t[self].menu_config, FALSE)
        parent == [t[self] EXCEPT
                     !.title = Append(@, Marker),
                     !.children = Append(@, id),
                     !.exec_func = EnterNextLevel(self)]
    IN Append([t EXCEPT ![self] = parent], option)

\* a slip: the child is constructed without the parent's menu_config
add_option_drops_config(t, self, title, given, exec_func, args, kwargs) ==
    LET id == Len(t) + 1
        option == OptionNode(title, given, exec_func, args, kwargs, "DEFAULT_MENU_CONFIG", FALSE)
        parent == [t[self] EXCEPT
                     !.title = IF EndsWithMarker(@) THEN @ ELSE Append(@, Marker),
                     !.children = Append(@, id),
                     !.exec_func = EnterNextLevel(self)]
    IN Append([t EXCEPT ![self] = parent], option)

\* _OptionNode.add_option on node self of tree t: the tree afterwards
add_option(t, self, title, given, exec_func, args, kwargs) ==
    LET id == Len(t) + 1
        option == OptionNode(title, given, exec_func, args, kwargs, t[self].menu_config, FALSE)
        parent == [t[self] EXCEPT
                     !.title = IF EndsWithMarker(@) THEN @ ELSE Append(@, Marker),
                     !.children = Append(@, id),
                     !.exec_func = EnterNextLevel(self)]
    IN Append([t EXCEPT ![self] = parent], option)

add_return_option(t, self) ==
    add_option(t, self, <<"[Back]">>, TRUE, ReturnPreviousLevel(self), <<>>, <<>>)

add_exit_option(t, self) ==
    add_option(t, self, <<"[Exit]">>, TRUE, QuitingLevel(self), <<>>, <<>>)

\* CliHelper.__init__
CliHelper(mc) ==
    <<OptionNode(<<"Main Menu">>, FALSE, DefaultFunc, <<>>, <<>>,
                 IF mc.given THEN "arg" ELSE "DEFAULT_MENU_CONFIG", TRUE)>>

\* ------------------------------------------------------------------ events
Event(ev, node, arg) == [ev |-> ev, node |-> node, arg |-> arg, depth |-> Len(frames)]

Frame(n) == [node |-> n, state |-> ENTER_CODE]

ReqIdle == /\ req = <<>>
           /\ result = [value |-> EmptyLine, state |-> FALSE, done |-> FALSE]
           /\ rlog = <<>>

MenuIdle == /\ nodes = CliHelper([given |-> FALSE, dict |-> DEFAULT_MENU_CONFIG])
            /\ menu_configs = [DEFAULT_MENU_CONFIG |-> DEFAULT_MENU_CONFIG, arg |-> DEFAULT_MENU_CONFIG]
            /\ frames = <<>>
            /\ events = <<>>
            /\ calls = <<>>

\* ------------------------------------------------------------ build phase
Init ==
    /\ \E mc \in MenuConfigArgs :
         /\ nodes = CliHelper(mc)
         /\ menu_configs = [DEFAULT_MENU_CONFIG |-> DEFAULT_MENU_CONFIG, arg |-> mc.dict]
    /\ phase = "build"
    /\ frames = <<>>
    /\ events = <<>>
    /\ calls = <<>>
    /\ inputs = 0
    /\ ReqIdle

AddOption ==
    /\ phase = "build"
    /\ Len(nodes) < MaxNodes
    /\ \E self \in 1..Len(nodes), o \in HostOptions :
         nodes' = add_option(nodes, self, o.title, o.given, o.exec_func, o.args, o.kwargs)
    /\ UNCHANGED <<menu_configs, phase, frames, events, calls, inputs, reqvars>>

AddReturnOption ==
    /\ phase = "build"
    /\ Len(nodes) < MaxNodes
    /\ \E self \in 1..Len(nodes) : nodes' = add_return_option(nodes, self)
    /\ UNCHANGED <<menu_configs, phase, frames, events, calls, inputs, reqvars>>

AddExitOption ==
    /\ phase = "build"
    /\ Len(nodes) < MaxNodes
    /\ \E self \in 1..Len(nodes) : nodes' = add_exit_option(nodes, self)
    /\ UNCHANGED <<menu_configs, phase, frames, events, calls, inputs, reqvars>>

\* a host title that itself ends with " [d]"
MarkedTitleOptions ==
    {[title |-> <<"Tools", Marker>>, given |-> FALSE, exec_func |-> DefaultFunc, args |-> <<>>, kwargs |-> <<>>]}

AddMarkedTitleOption ==
    /\ phase = "build"
    /\ Len(nodes) < MaxNodes
    /\ \E self \in 1..Len(nodes), o \in MarkedTitleOptions :
         nodes' = add_option(nodes, self, o.title, o.given, o.exec_func, o.args, o.kwargs)
    /\ UNCHANGED <<menu_configs, phase, frames, events, calls, inputs, reqvars>>

\* the build phase alone, with every kind of title
BuildNext == AddOption \/ AddMarkedTitleOption \/ AddReturnOption \/ AddExitOption

SpecBuild == Init /\ [][BuildNext]_vars

\* ---------------------------------------------------------------- traversal
\* the lines a user types at a menu prompt
MenuLines == {<<"1">>, <<"2">>, <<"3">>, <<"q">>, <<"sup2">>}

ConfigOf(n) == menu_configs[nodes[n].menu_config]

\* the arguments _request_option passes to request_input
OptionRequest(n) ==
    [has_default_val |-> FALSE, default_val |-> EmptyLine,
     has_quit_val |-> FALSE, quit_val |-> <<"q">>,
     check_func |-> OptionCheck(Len(nodes[n].children)),
     ask_again |-> FALSE, need_confirm |-> FALSE]

\* a slip: the choice is used as a 0-based index
request_option_zero_based(n, raw) ==
    LET r == request_step(OptionRequest(n), raw) IN
    IF r.kind = "ValueError" THEN [raises |-> TRUE, opt |-> 0]
    ELSE IF r.state = FALSE THEN [raises |-> FALSE, opt |-> 0]
    ELSE [raises |-> FALSE,
          opt |-> nodes[n].children[(int_value(r.value) % Len(nodes[n].children)) + 1]]

\* _request_option: the chosen child, 0 for None, or the exception raised
request_option(n, raw) ==
    LET r == request_step(OptionRequest(n), raw) IN
    IF r.kind = "ValueError" THEN [raises |-> TRUE, opt |-> 0]
    ELSE IF r.state = FALSE THEN [raises |-> FALSE, opt |-> 0]
    ELSE [raises |-> FALSE, opt |-> nodes[n].children[int_value(r.value)]]

\* _draw_menu with _get_max_length_of_option_titles: "ok" or the exception raised
draw_menu(n) ==
    IF \E i \in 1..Len(DrawKeys) : DrawKeys[i] \notin DOMAIN ConfigOf(n) THEN "KeyError"
    ELSE IF Len(nodes[n].children) = 0 THEN "ValueError"
    ELSE "ok"

\* a slip: a missing signal is redrawn like ENTER_CODE
needs_draw_on_no_signal(d, state) == d.draw_menu_again \/ state \in {ENTER_CODE, None}

\* a slip: the menu is drawn on every iteration
needs_draw_always(d, state) == TRUE

\* a slip: draw_menu_again is not looked at
needs_draw_only_on_enter(d, state) == state = ENTER_CODE

\* the redraw condition at the top of a loop iteration
needs_draw(d, state) == d.draw_menu_again \/ state = ENTER_CODE

\* the while condition of _enter_next_level
\* a slip: the loop goes on only after a level was entered
loop_continues_only_after_enter(state) == state = ENTER_CODE

loop_continues(state) == state \notin {RETURN_CODE, QUIT_CODE}

\* a slip: QUIT_CODE is absorbed like RETURN_CODE
level_return_code_absorbs_quit(state) == ENTER_CODE

\* a slip: the final state is returned as it is
level_return_code_passes_state(state) == state

\* the code _enter_next_level returns once the loop has ended with state
level_return_code(state) == IF state = QUIT_CODE THEN QUIT_CODE ELSE ENTER_CODE

\* the value opt.exec_func(*opt.args, **opt.kwargs) returns without entering a level
leaf_return_value(f) ==
    CASE f.fn = "return_previous_level" -> RETURN_CODE
      [] f.fn = "quiting_level" -> QUIT_CODE
      [] OTHER -> None

\* opt.exec_func(*opt.args, **opt.kwargs), for the option opt chosen with the line raw in the menu of n
Call(n, raw, opt) ==
    [menu |-> n, line |-> raw, node |-> opt, exec_func |-> nodes[opt].exec_func,
     args |-> nodes[opt].args, kwargs |-> nodes[opt].kwargs]

Top == frames[Len(frames)]

SetTopState(s) == [frames EXCEPT ![Len(frames)].state = s]

Crash(ev, n, shown) ==
    /\ phase' = "crashed"
    /\ events' = events \o shown \o <<Event(ev, n, 0)>>
    /\ frames' = <<>>

\* a slip: the loop is started without looking at _is_root
StartLoopOnAnyNode ==
    /\ phase = "build"
    /\ \E self \in 1..Len(nodes) :
         /\ phase' = "run"
         /\ frames' = <<Frame(self)>>
         /\ events' = events
    /\ UNCHANGED <<nodes, menu_configs, calls, inputs, reqvars>>

\* _OptionNode.start_loop on node self
StartLoop ==
    /\ phase = "build"
    /\ \E self \in 1..Len(nodes) :
         IF nodes[self].is_root
         THEN /\ phase' = "run"
              /\ frames' = <<Frame(self)>>
              /\ events' = events
         ELSE /\ phase' = "done"
              /\ frames' = frames
              /\ events' = Append(events, Event("misuse", self, 0))
    /\ UNCHANGED <<nodes, menu_configs, calls, inputs, reqvars>>

\* one iteration of the while loop of the innermost _enter_next_level
LoopIter(lines, max) ==
    /\ phase = "run"
    /\ Len(frames) > 0
    /\ loop_continues(Top.state)
    /\ inputs < max
    /\ LET n == Top.node
           d == ConfigOf(n)
       IN
       IF "draw_menu_again" \notin DOMAIN d
       THEN /\ Crash("KeyError", n, <<>>)
            /\ inputs' = inputs
            /\ calls' = calls
       ELSE LET draws == needs_draw(d, Top.state)
                drawn == IF draws THEN <<Event("draw", n, 0)>> ELSE <<>>
            IN
            IF draws /\ draw_menu(n) # "ok"
            THEN /\ Crash(draw_menu(n), n, <<>>)
                 /\ inputs' = inputs
                 /\ calls' = calls
            ELSE \E raw \in lines :
                   LET r == request_option(n, raw)
                       shown == drawn \o <<Event("prompt", n, 0)>>
                   IN
                   /\ inputs' = inputs + 1
                   /\ calls' = IF r.raises \/ r.opt = 0 THEN calls
                               ELSE Append(calls, Call(n, raw, r.opt))
                   /\ IF r.raises
                      THEN Crash("ValueError", n, shown)
                      ELSE IF r.opt = 0
                      THEN /\ events' = events \o shown \o <<Event("invalid", n, 0)>>
                           /\ frames' = SetTopState(None)
                           /\ phase' = phase
                      ELSE LET f == nodes[r.opt].exec_func IN
                           IF f.fn = "enter_next_level"
                           THEN /\ events' = events \o shown \o <<Event("select", n, r.opt)>>
                                /\ frames' = Append(SetTopState(None), Frame(f.self))
                                /\ phase' = phase
                           ELSE /\ events' = events \o shown
                                        \o <<Event("select", n, r.opt), Event(f.fn, r.opt, leaf_return_value(f))>>
                                /\ frames' = SetTopState(leaf_return_value(f))
                                /\ phase' = phase
    /\ UNCHANGED <<nodes, menu_configs, reqvars>>

\* a slip: a returning level asks for the redraw by setting draw_menu_again in the shared dict
LevelReturnsSetsRedraw ==
    /\ phase = "run"
    /\ Len(frames) > 0
    /\ ~loop_continues(Top.state)
    /\ LET code == level_return_code(Top.state)
           callers == SubSeq(frames, 1, Len(frames) - 1)
       IN
       IF Len(callers) > 0
       THEN /\ frames' = [callers EXCEPT ![Len(callers)].state = code]
            /\ events' = Append(events, Event("return", Top.node, code))
            /\ phase' = phase
       ELSE /\ frames' = callers
            /\ events' = events \o <<Event("return", Top.node, code), Event("bye", Top.node, 0)>>
            /\ phase' = "done"
    /\ menu_configs' = [menu_configs EXCEPT ![nodes[Top.node].menu_config].draw_menu_again = TRUE]
    /\ UNCHANGED <<nodes, calls, inputs, reqvars>>

\* the innermost _enter_next_level returns to its caller
LevelReturns ==
    /\ phase = "run"
    /\ Len(frames) > 0
    /\ ~loop_continues(Top.state)
    /\ LET code == level_return_code(Top.state)
           callers == SubSeq(frames, 1, Len(frames) - 1)
       IN
       IF Len(callers) > 0
       THEN /\ frames' = [callers EXCEPT ![Len(callers)].state = code]
            /\ events' = Append(events, Event("return", Top.node, code))
            /\ phase' = phase
       ELSE /\ frames' = callers
            /\ events' = events \o <<Event("return", Top.node, code), Event("bye", Top.node, 0)>>
            /\ phase' = "done"
    /\ UNCHANGED <<nodes, menu_configs, calls, inputs, reqvars>>

MenuLoop == LoopIter(MenuLines, MaxInputs)

Next == AddOption \/ AddReturnOption \/ AddExitOption \/ StartLoop \/ MenuLoop \/ LevelReturns

Spec == Init /\ [][Next]_vars

TypeOK ==
    /\ phase \in {"build", "run", "done", "crashed"}
    /\ Len(nodes) \in 1..(MaxNodes)
    /\ inputs \in 0..MaxInputs

\* ------------------------------------------------- the tree of test_helper
\* 1 Main Menu; 2 New; 3 [Back]; 4 New File; 5 New Folder; 6 [Exit]; 7 Open File; 8 Save; 9 [Exit]
TestHelperTree(mc) ==
    LET ch == CliHelper(mc)
        t2 == add_option(ch, 1, <<"New">>, FALSE, DefaultFunc, <<>>, <<>>)
        t3 == add_return_option(t2, 2)
        t4 == add_option(t3, 2, <<"New File">>, FALSE, DefaultFunc, <<>>, <<>>)
        t5 == add_option(t4, 2, <<"New Folder">>, TRUE, NewFolder, <<"Temp">>, <<>>)
        t6 == add_exit_option(t5, 2)
        t7 == add_option(t6, 1, <<"Open File">>, TRUE, OpenFile, <<>>, <<>>)
        t8 == add_option(t7, 1, <<"Save">>, FALSE, DefaultFunc, <<>>, <<>>)
    IN add_exit_option(t8, 1)

ScenarioLines == {<<"1">>, <<"2">>, <<"3">>, <<"4">>, <<"q">>, <<"0">>, <<"5">>}

\* test_helper up to its call of start_loop, with the dict it passes, with
\* CliHelper() (its commented-out alternative) or with another dict
ScenarioInit ==
    /\ \E mc \in MenuConfigArgs :
         /\ nodes = TestHelperTree(mc)
         /\ menu_configs = [DEFAULT_MENU_CONFIG |-> DEFAULT_MENU_CONFIG, arg |-> mc.dict]
    /\ phase = "build"
    /\ frames = <<>>
    /\ events = <<>>
    /\ calls = <<>>
    /\ inputs = 0
    /\ ReqIdle

ScenarioLoop == LoopIter(ScenarioLines, MaxScenarioInputs)

ScenarioNext == StartLoop \/ ScenarioLoop \/ LevelReturns

SpecScenario == ScenarioInit /\ [][ScenarioNext]_vars

\* ============================================================ request_input
\* a slip: the confirmation does not ask again
ConfirmRequestNoRetry ==
    [has_default_val |-> FALSE, default_val |-> EmptyLine,
     has_quit_val |-> FALSE, quit_val |-> <<"q">>,
     check_func |-> ConfirmCheck,
     ask_again |-> FALSE, need_confirm |-> FALSE]

\* the arguments of the nested call that asks for confirmation
ConfirmRequest ==
    [has_default_val |-> FALSE, default_val |-> EmptyLine,
     has_quit_val |-> FALSE, quit_val |-> <<"q">>,
     check_func |-> ConfirmCheck,
     ask_again |-> TRUE, need_confirm |-> FALSE]

\* the arguments of test_req
TestReqRequest ==
    [has_default_val |-> TRUE, default_val |-> <<"4">>,
     has_quit_val |-> TRUE, quit_val |-> <<"q">>,
     check_func |-> TestReqCheck,
     ask_again |-> FALSE, need_confirm |-> TRUE]

\* the keyword arguments a caller passes
RequestArgs ==
    [has_default_val : BOOLEAN, default_val : {<<"4">>, <<"q">>},
     has_quit_val : BOOLEAN, quit_val : {<<"q">>, EmptyLine},
     check_func : {NoCheck, TestReqCheck},
     ask_again : BOOLEAN, need_confirm : BOOLEAN]

\* the lines a user types at a request_input prompt
ReqLines == {EmptyLine, <<"q">>, <<"4">>, <<"1">>, <<"sup2">>,
             <<"y">>, <<"y", "e", "s">>, <<"n">>, <<"n", "o">>, <<"N", "O">>}

\* a slip: only the full word is a refusal
RefusalsOnlyNo == {<<"n", "o">>}

\* the answers for which the caller of the confirmation starts over
Refusals == {<<"n">>, <<"n", "o">>}

ReqEvent(ev, level, val, ok) == [ev |-> ev, level |-> level, val |-> val, ok |-> ok]

ReqFrame(p) == [p |-> p, input_val |-> EmptyLine]

\* what the validation tail prints and consults, for its outcome r
validate_log(p, level, v, r) ==
    IF p.check_func.fn = "None" THEN <<>>
    ELSE IF r.kind = "ValueError" THEN <<ReqEvent("check", level, v, FALSE), ReqEvent("ValueError", level, v, FALSE)>>
    ELSE IF r.kind = "again" THEN <<ReqEvent("check", level, v, FALSE), ReqEvent("again", level, v, FALSE)>>
    ELSE IF r.state = FALSE THEN <<ReqEvent("check", level, v, FALSE), ReqEvent("error", level, v, FALSE)>>
    ELSE <<ReqEvent("check", level, v, TRUE)>>

Outcome(stack, ph, log) == [req |-> stack, phase |-> ph, rlog |-> log]

\* the innermost call of stack returns (v, ok): the caller, if any, resumes
\* after its confirmation call, and may return in turn
RECURSIVE deliver(_, _, _, _)
deliver(stack, v, ok, log) ==
    LET level == Len(stack)
        returned == Append(log, ReqEvent("return", level, v, ok))
    IN
    IF level = 1 THEN Outcome(stack, "done", returned)
    ELSE LET callers == SubSeq(stack, 1, level - 1)
             c == callers[level - 1]
         IN
         IF v \in Refusals THEN Outcome(callers, "run", returned)
         ELSE LET r == validate(c.p, c.input_val)
                  checked == returned \o validate_log(c.p, level - 1, c.input_val, r)
              IN
              CASE r.kind = "again" -> Outcome(callers, "run", checked)
                [] r.kind = "ValueError" -> Outcome(callers, "crashed", checked)
                [] OTHER -> deliver(callers, r.value, r.state, checked)

\* the innermost call of stack prints its prompt and reads the line raw
request_read(stack, raw, log) ==
    LET level == Len(stack)
        top == stack[level]
        r == request_step(top.p, raw)
        shown == log \o <<ReqEvent("prompt", level, EmptyLine, FALSE), ReqEvent("read", level, raw, FALSE)>>
    IN
    CASE r.kind = "confirm" ->
            Outcome(Append([stack EXCEPT ![level].input_val = r.value], ReqFrame(ConfirmRequest)),
                    "run", shown)
      [] r.kind = "return" /\ top.p.has_quit_val /\ read_input_val(top.p, raw) = top.p.quit_val ->
            deliver(stack, r.value, r.state, Append(shown, ReqEvent("quit", level, raw, FALSE)))
      [] r.kind = "return" ->
            deliver(stack, r.value, r.state, shown \o validate_log(top.p, level, read_input_val(top.p, raw), r))
      [] r.kind = "again" ->
            Outcome(stack, "run", shown \o validate_log(top.p, level, read_input_val(top.p, raw), r))
      [] OTHER ->
            Outcome(stack, "crashed", shown \o validate_log(top.p, level, read_input_val(top.p, raw), r))

\* the (value, accepted) pair the outermost call returned
ResultOf(log) ==
    LET e == log[Len(log)] IN
    IF Len(log) > 0 /\ e.ev = "return" /\ e.level = 1
    THEN [value |-> e.val, state |-> e.ok, done |-> TRUE]
    ELSE [value |-> EmptyLine, state |-> FALSE, done |-> FALSE]

ReqInit ==
    /\ \E p \in RequestArgs \cup {TestReqRequest} : req = <<ReqFrame(p)>>
    /\ result = [value |-> EmptyLine, state |-> FALSE, done |-> FALSE]
    /\ rlog = <<>>
    /\ phase = "run"
    /\ inputs = 0
    /\ MenuIdle

\* one input() of the innermost request_input call, up to the next input()
ReqReadUpTo(max) ==
    /\ phase = "run"
    /\ inputs < max
    /\ \E raw \in ReqLines :
         LET o == request_read(req, raw, rlog) IN
         /\ req' = o.req
         /\ phase' = o.phase
         /\ rlog' = o.rlog
         /\ result' = ResultOf(o.rlog)
    /\ inputs' = inputs + 1
    /\ UNCHANGED menuvars

ReqRead == ReqReadUpTo(MaxReqInputs)

ReqNext == ReqRead

\* calls that ask for confirmation: test_req and two variants of it
ConfirmingArgs ==
    {TestReqRequest,
     [TestReqRequest EXCEPT !.ask_again = TRUE],
     [TestReqRequest EXCEPT !.check_func = NoCheck, !.has_default_val = FALSE]}

ConfirmInit ==
    /\ \E p \in ConfirmingArgs : req = <<ReqFrame(p)>>
    /\ result = [value |-> EmptyLine, state |-> FALSE, done |-> FALSE]
    /\ rlog = <<>>
    /\ phase = "run"
    /\ inputs = 0
    /\ MenuIdle

ConfirmRead == ReqReadUpTo(MaxConfirmInputs)

ConfirmNext == ConfirmRead

SpecConfirm == ConfirmInit /\ [][ConfirmNext]_vars

SpecReq == ReqInit /\ [][ReqNext]_vars

\* ------------------------------------------------------------- properties
\* the node whose menu lists n
ParentOf(n) == CHOOSE p \in 1..Len(nodes) : \E k \in 1..Len(nodes[p].children) : nodes[p].children[k] = n

\* draw_menu_again is configured true
RedrawEveryIteration ==
    /\ "draw_menu_again" \in DOMAIN ConfigOf(1)
    /\ ConfigOf(1).draw_menu_again

EvNode(i) == <<events[i].ev, events[i].node>>

\* what the user chose at each prompt: the selected node, 0 for an invalid line
Choices == SelectSeq([i \in 1..Len(events) |-> events[i]], LAMBDA e : e.ev \in {"select", "invalid"})

ChoiceArgs == [i \in 1..Len(Choices) |-> Choices[i].arg]

DrawnLevels ==
    LET ds == SelectSeq(events, LAMBDA e : e.ev = "draw") IN [i \in 1..Len(ds) |-> ds[i].node]

\* C1: once a QUIT leaf ([Exit]) has been selected in the menu at depth d,
\* the only things that still happen are the d enclosing _enter_next_level
\* calls returning QUIT_CODE, innermost first, and then the end of
\* start_loop: no menu is drawn and no choice is requested any more.
C1_QuitUnwindsEveryLevel ==
    \A i \in 1..Len(events) :
        events[i].ev = "quiting_level" =>
            LET d == events[i].depth IN
            /\ phase \in {"run", "done"}
            /\ Len(events) <= i + d + 1
            /\ Len(frames) = IF Len(events) >= i + d THEN 0 ELSE d - (Len(events) - i)
            /\ phase = "done" <=> Len(events) = i + d + 1
            /\ \A j \in (i + 1)..Len(events) :
                  IF j <= i + d
                  THEN /\ events[j].ev = "return"
                       /\ events[j].arg = QUIT_CODE
                       /\ events[j].depth = d - (j - i) + 1
                  ELSE events[j].ev = "bye"

C1_Witness ==
    /\ phase = "done"
    /\ \E i \in 1..Len(events) : events[i].ev = "quiting_level" /\ events[i].depth = 3

\* C2: selecting a RETURN leaf ([Back]) in the menu of a node m that was
\* entered from a parent menu ends exactly the level of m: that call returns
\* ENTER_CODE to the parent's loop, which continues, and the parent's menu
\* is drawn exactly once before its next prompt, whatever draw_menu_again is.
C2_ReturnEndsOneLevel ==
    \A i \in 1..Len(events) :
        (events[i].ev = "return_previous_level" /\ events[i].depth >= 2) =>
            LET d == events[i].depth
                m == events[i - 1].node
            IN
            /\ Len(events) = i => (Len(frames) = d /\ Top.state = RETURN_CODE)
            /\ Len(events) > i =>
                  /\ events[i + 1] = [ev |-> "return", node |-> m, arg |-> ENTER_CODE, depth |-> d]
                  /\ Len(events) = i + 1 =>
                        (phase = "run" /\ Len(frames) = d - 1 /\ Top.node = ParentOf(m)
                           /\ Top.state = ENTER_CODE)
            /\ Len(events) > i + 1 =>
                  /\ Len(events) >= i + 3
                  /\ events[i + 2] = [ev |-> "draw", node |-> ParentOf(m), arg |-> 0, depth |-> d - 1]
                  /\ events[i + 3] = [ev |-> "prompt", node |-> ParentOf(m), arg |-> 0, depth |-> d - 1]

C2_Witness ==
    /\ RedrawEveryIteration
    /\ \E i \in 1..Len(events) :
          /\ events[i].ev = "return_previous_level"
          /\ events[i].depth >= 2
          /\ Len(events) >= i + 3

\* the events of the scenario of C3, as <<event, node>> in the tree of test_helper
ScenarioEvents ==
    << <<"draw", 1>>, <<"prompt", 1>>, <<"select", 1>>,
       <<"draw", 2>>, <<"prompt", 2>>, <<"select", 2>>, <<"default_func", 4>>,
       <<"prompt", 2>>, <<"select", 2>>, <<"return_previous_level", 3>>, <<"return", 2>>,
       <<"draw", 1>>, <<"prompt", 1>>, <<"select", 1>>, <<"quiting_level", 9>>,
       <<"return", 1>>, <<"bye", 1>> >>

\* C3: in the tree of test_helper with draw_menu_again not true, the
\* choices New, New File, [Back], [Exit] give exactly: root drawn, New
\* drawn, the leaf action run, New prompted again without a redraw, root
\* drawn, and the end of the loop; the levels drawn are root, New, root.
C3_Scenario ==
    (ChoiceArgs = <<2, 4, 3, 9>> /\ ~RedrawEveryIteration /\ phase = "done") =>
        /\ [i \in 1..Len(events) |-> EvNode(i)] = ScenarioEvents
        /\ DrawnLevels = <<1, 2, 1>>
        /\ inputs = 4

C3_Witness == ChoiceArgs = <<2, 4, 3, 9>> /\ ~RedrawEveryIteration /\ phase = "done"

\* C8: start_loop and the traversal never raise, for every tree and every
\* sequence of input lines.
C8_NeverRaises == phase # "crashed"

\* C9: a menu is drawn whatever subset of the MenuConfig fields was
\* supplied: no lookup of a layout option fails.
C9_OmittedFieldsDefault == \A i \in 1..Len(events) : events[i].ev # "KeyError"

\* C10: a node with at least one child has its own _enter_next_level as
\* exec_func, a node without children keeps its exec_func from one step to
\* the next, and only actions of nodes without children run in a traversal.
C10_Step ==
    /\ \A n \in 1..Len(nodes') : Len(nodes'[n].children) > 0 => nodes'[n].exec_func = EnterNextLevel(n)
    /\ \A n \in 1..Len(nodes) : Len(nodes'[n].children) = 0 => nodes'[n].exec_func = nodes[n].exec_func
    /\ \A i \in 1..Len(events') :
          events'[i].ev \in {"default_func", "open_file", "new_folder"} =>
              Len(nodes'[events'[i].node].children) = 0

C10_BranchActionIsTraversal == [][C10_Step]_vars

\* a node constructed with a host action has children and was selected
C10_Witness ==
    \E i \in 1..Len(events), n \in 1..Len(nodes) :
        /\ nodes[n].title = <<"Open File", Marker>>
        /\ events[i].ev = "select"
        /\ events[i].arg = n

\* ------------------------------------------- properties of request_input
\* the arguments of the outermost call
OuterArgs == req[1].p

IsRead(i, level) == rlog[i].ev = "read" /\ rlog[i].level = level

\* the value a level-1 read submits: the default for an empty line, if there is one
Submitted(i) ==
    IF OuterArgs.has_default_val /\ rlog[i].val = EmptyLine
    THEN OuterArgs.default_val
    ELSE rlog[i].val

IsQuitValue(v) == OuterArgs.has_quit_val /\ v = OuterArgs.quit_val

\* the first event after i of the outermost call, 0 if there is none
NextOuter(i) ==
    IF \E j \in (i + 1)..Len(rlog) : rlog[j].level = 1
    THEN CHOOSE j \in (i + 1)..Len(rlog) :
            /\ rlog[j].level = 1
            /\ \A k \in (i + 1)..(j - 1) : rlog[k].level # 1
    ELSE 0

\* the last read of the outermost call before i
LastOuterRead(i) ==
    CHOOSE j \in 1..i : IsRead(j, 1) /\ \A k \in (j + 1)..i : ~IsRead(k, 1)

\* C4: when the submitted value equals quit_val and has_quit_val is true,
\* the request prints "Quit." and returns ("", False) at once: no
\* confirmation prompt, no call of check_func, no further prompt.
C4_QuitReturnsAtOnce ==
    \A i \in 1..Len(rlog) :
        (IsRead(i, 1) /\ IsQuitValue(Submitted(i))) =>
            /\ Len(rlog) = i + 2
            /\ rlog[i + 1].ev = "quit"
            /\ rlog[i + 2] = ReqEvent("return", 1, EmptyLine, FALSE)
            /\ phase = "done"
            /\ result = [value |-> EmptyLine, state |-> FALSE, done |-> TRUE]

\* the quit value was submitted to a request that confirms, checks and asks again
C4_Witness ==
    /\ OuterArgs.need_confirm /\ OuterArgs.ask_again /\ OuterArgs.check_func # NoCheck
    /\ OuterArgs.has_default_val
    /\ \E i \in 2..Len(rlog) : IsRead(i, 1) /\ rlog[i].val = <<"q">> /\ IsQuitValue(<<"q">>)
    /\ result.done

\* C5: the candidate a read hands on (to the quit check, the confirmation
\* and check_func) is default_val for an empty line when has_default_val is
\* true and the line itself otherwise; with default "4", an empty line, a
\* check accepting "4" and no refusal, the request returns ("4", True).
C5_DefaultReplacesEmptyLine ==
    \A i \in 1..Len(rlog) :
        IsRead(i, 1) =>
            LET v == Submitted(i)
                j == NextOuter(i)
            IN
            /\ (rlog[i].val # EmptyLine \/ ~OuterArgs.has_default_val) => v = rlog[i].val
            /\ IF j = 0
               THEN /\ req[1].input_val = v
                    /\ Len(req) = 2 \/ rlog[Len(rlog)].val \in Refusals
               ELSE /\ rlog[j].ev \in {"quit", "check", "return", "prompt"}
                    /\ rlog[j].ev = "quit" <=> IsQuitValue(v)
                    /\ rlog[j].ev \in {"check", "return"} => rlog[j].val = v
                    /\ rlog[j].ev = "prompt" => rlog[j - 1].val \in Refusals
            /\ (/\ rlog[i].val = EmptyLine
                /\ OuterArgs.has_default_val /\ OuterArgs.default_val = <<"4">>
                /\ ~IsQuitValue(<<"4">>)
                /\ result.done /\ LastOuterRead(Len(rlog)) = i)
               => result = [value |-> <<"4">>, state |-> TRUE, done |-> TRUE]

\* test_req: an empty line, confirmed, gives ("4", True)
C5_Witness ==
    /\ OuterArgs = TestReqRequest
    /\ Len(rlog) > 2 /\ IsRead(2, 1) /\ rlog[2].val = EmptyLine
    /\ result = [value |-> <<"4">>, state |-> TRUE, done |-> TRUE]

\* C6: with need_confirm, a candidate that is not the quit value is followed
\* by the confirmation prompt before any check; the answer "no" or "n" makes
\* the original prompt appear again with nothing returned, the answer "yes"
\* or "y" hands the unchanged candidate to check_func (or returns it when
\* there is none); the confirmation is never itself confirmed.
C6_ConfirmationProtocol ==
    /\ Len(req) <= 2
    /\ \A i \in 1..Len(rlog) :
          /\ rlog[i].level \in {1, 2}
          /\ (IsRead(i, 1) /\ OuterArgs.need_confirm /\ ~IsQuitValue(Submitted(i))) =>
                IF Len(rlog) = i THEN Len(req) = 2 /\ phase = "run"
                ELSE rlog[i + 1] = ReqEvent("prompt", 2, EmptyLine, FALSE)
          /\ (IsRead(i, 2) /\ rlog[i].val \in {<<"n", "o">>, <<"n">>, <<"y", "e", "s">>, <<"y">>}) =>
                /\ Len(rlog) >= i + 2
                /\ rlog[i + 1] = ReqEvent("check", 2, rlog[i].val, TRUE)
                /\ rlog[i + 2] = ReqEvent("return", 2, rlog[i].val, TRUE)
          /\ (IsRead(i, 2) /\ rlog[i].val \in {<<"n", "o">>, <<"n">>}) =>
                IF Len(rlog) = i + 2
                THEN phase = "run" /\ Len(req) = 1 /\ ~result.done
                ELSE rlog[i + 3] = ReqEvent("prompt", 1, EmptyLine, FALSE)
          /\ (IsRead(i, 2) /\ rlog[i].val \in {<<"y", "e", "s">>, <<"y">>}) =>
                LET v == Submitted(LastOuterRead(i)) IN
                /\ Len(rlog) > i + 2
                /\ rlog[i + 3].level = 1
                /\ rlog[i + 3].val = v
                /\ rlog[i + 3].ev = IF OuterArgs.check_func = NoCheck THEN "return" ELSE "check"

\* a refusal was followed by the original prompt again
C6_Witness ==
    \E i \in 1..Len(rlog) :
        /\ IsRead(i, 2) /\ rlog[i].val = <<"n", "o">>
        /\ Len(rlog) > i + 3
        /\ rlog[i + 3].ev = "prompt"

\* the outcomes of a finished request, as C7 describes them
PairAsDescribed ==
    result.done =>
        LET v == Submitted(LastOuterRead(Len(rlog))) IN
        IF result.state
        THEN /\ result.value = v
             /\ OuterArgs.check_func # NoCheck => check_func_call(OuterArgs.check_func, v) = "True"
             /\ ~IsQuitValue(v)
        ELSE /\ result.value = EmptyLine
             /\ \/ IsQuitValue(v)
                \/ /\ OuterArgs.check_func # NoCheck
                   /\ check_func_call(OuterArgs.check_func, v) = "False"
                   /\ ~OuterArgs.ask_again

\* C7: request_input never raises, and a finished request returned
\* ("", False) exactly for the quit value or a failed check without
\* ask_again, and (v, True) for the last candidate v otherwise.
C7_EveryOutcomeIsAPair == phase # "crashed" /\ PairAsDescribed

\* --------------------------------------------------- properties of the tree
\* add_option was called on n in this step
GainsChild(n) == Len(nodes'[n].children) > Len(nodes[n].children)

\* C11 as stated: the first add_option on a node appends one marker to the
\* title it had, later calls leave the title alone, and a node on which
\* add_option is not called keeps its title.
C11_Original_Step ==
    \A n \in 1..Len(nodes) :
        nodes'[n].title =
            IF GainsChild(n) /\ Len(nodes[n].children) = 0
            THEN Append(nodes[n].title, Marker)
            ELSE nodes[n].title

C11_Original == [][C11_Original_Step]_vars

\* C11 amended: add_option leaves a title that ends with " [d]" as it is
\* (also on the first call, when the host's own title ends that way) and
\* appends one marker otherwise; so after n >= 1 calls the title is the same
\* as after one call and ends with one marker, and a node on which
\* add_option is not called keeps its title.
C11_Step ==
    \A n \in 1..Len(nodes) :
        /\ nodes'[n].title =
              IF GainsChild(n) /\ ~EndsWithMarker(nodes[n].title)
              THEN Append(nodes[n].title, Marker)
              ELSE nodes[n].title
        /\ Len(nodes'[n].children) > 0 => EndsWithMarker(nodes'[n].title)
        /\ (GainsChild(n) /\ Len(nodes[n].children) > 0) => nodes'[n].title = nodes[n].title

C11_MarkerIsIdempotent == [][C11_Step]_vars

\* two calls of add_option on a node the host titled "Tools [d]"
C11_Witness ==
    \E n \in 1..Len(nodes) :
        /\ nodes[n].title = <<"Tools", Marker>>
        /\ Len(nodes[n].children) = 2

\* C12: every node holds the menu_config object of the root, also the
\* [Back] and [Exit] nodes and the nodes added below them.
C12_ConfigIsShared ==
    \A n \in 1..Len(nodes) : nodes[n].menu_config = nodes[1].menu_config

\* a dict was passed to CliHelper and a node was added below a [Back] node
C12_Witness ==
    /\ nodes[1].menu_config = "arg"
    /\ \E n, m \in 1..Len(nodes) :
          /\ nodes[n].title = <<"[Back]", Marker>>
          /\ nodes[n].children = <<m>>

\* C13: start_loop on a node that is not the root only reports the misuse:
\* nothing is drawn, read or called and no traversal starts; the traversal
\* runs only from the root created by CliHelper, which enters it once.
C13_OnlyRootStartsLoop ==
    /\ \A n \in 1..Len(nodes) : nodes[n].is_root <=> n = 1
    /\ \A i \in 1..Len(events) :
          /\ events[i].ev = "misuse" =>
                /\ ~nodes[events[i].node].is_root
                /\ Len(events) = 1 /\ phase = "done"
                /\ frames = <<>> /\ inputs = 0 /\ calls = <<>>
          /\ events[i].ev # "misuse" => events[i].depth >= 1
          /\ (events[i].depth = 1
                /\ events[i].ev \in {"draw", "prompt", "select", "invalid", "return", "bye"}) =>
                events[i].node = 1
          /\ (events[i].ev = "return" /\ events[i].depth = 1) =>
                (Len(events) = i + 1 /\ events[i + 1].ev = "bye" /\ phase = "done")
    /\ Len(frames) > 0 => frames[1].node = 1

\* start_loop was called on a node that has children and is not the root
C13_Witness ==
    /\ Len(events) = 1
    /\ events[1].ev = "misuse"
    /\ Len(nodes[events[1].node].children) > 0

\* the decimal numeral of k, for k < 10
Numeral(k) == <<CHOOSE c \in DecimalChars : DecimalValue[c] = k>>

\* lines that are no choice in the menu of n: not a number, 0, one more than
\* the number of children, and "q"
InvalidChoiceLines(n) == {<<"x">>, EmptyLine, <<"q">>, <<"0">>, Numeral(Len(nodes[n].children) + 1)}

\* C14: an invalid line at a menu prompt gives no option and raises nothing;
\* it is reported once with no retry inside the choice request (one line
\* read per prompt), no exec_func is called for it, the level and the stack
\* stay as they are with state None, and the loop prompts again, without a
\* redraw unless draw_menu_again is true.
C14_InvalidChoice ==
    /\ \A n \in 1..Len(nodes) : \A raw \in InvalidChoiceLines(n) :
          request_option(n, raw) = [raises |-> FALSE, opt |-> 0]
    /\ \A k \in 1..Len(calls) : calls[k].line \notin InvalidChoiceLines(calls[k].menu)
    /\ \A i \in 1..Len(events) :
          /\ events[i].ev = "prompt" =>
                /\ Len(events) > i
                /\ events[i + 1].ev \in {"invalid", "select", "ValueError"}
          /\ events[i].ev = "invalid" =>
                LET n == events[i].node
                    d == events[i].depth
                IN
                /\ events[i - 1] = [ev |-> "prompt", node |-> n, arg |-> 0, depth |-> d]
                /\ Len(events) = i =>
                      (phase = "run" /\ Len(frames) = d /\ Top = [node |-> n, state |-> None])
                /\ Len(events) > i =>
                      IF RedrawEveryIteration
                      THEN /\ events[i + 1] = [ev |-> "draw", node |-> n, arg |-> 0, depth |-> d]
                           /\ events[i + 2] = [ev |-> "prompt", node |-> n, arg |-> 0, depth |-> d]
                      ELSE events[i + 1] = [ev |-> "prompt", node |-> n, arg |-> 0, depth |-> d]
    /\ Cardinality({i \in 1..Len(events) : events[i].ev = "prompt"}) = inputs

\* an invalid line in the menu of New was followed by its prompt, not by a redraw
C14_Witness ==
    /\ ~RedrawEveryIteration
    /\ \E i \in 2..Len(events) :
          /\ events[i].ev = "invalid" /\ events[i].node = 2
          /\ Len(events) > i + 1
          /\ events[i + 1].ev = "prompt"

\* the signal is ENTER_CODE after event j: the level was just entered (start
\* of the loop or a submenu selected), or a submenu returned ENTER_CODE
EnterSignalAfter(j) ==
    \/ j = 0
    \/ events[j].ev = "select"
    \/ events[j].ev = "return" /\ events[j].arg = ENTER_CODE

HostActions == {"default_func", "open_file", "new_folder"}

\* C15: a prompt is preceded by one draw of its own menu iff
\* draw_menu_again is true or the signal at the top of that iteration is
\* ENTER_CODE (entry of the level, or a submenu that came back), and never
\* by two; after a leaf action, which gives no signal, the same level
\* prompts again, with a draw only when draw_menu_again is true.
C15_RedrawRule ==
    \A i \in 1..Len(events) :
        /\ events[i].ev = "prompt" =>
              LET hasDraw == i > 1 /\ events[i - 1].ev = "draw"
                  j == IF hasDraw THEN i - 2 ELSE i - 1
              IN
              /\ hasDraw <=> (RedrawEveryIteration \/ EnterSignalAfter(j))
              /\ hasDraw => /\ events[i - 1].node = events[i].node
                            /\ events[i - 1].depth = events[i].depth
                            /\ j > 0 => events[j].ev # "draw"
        /\ events[i].ev = "draw" => (Len(events) > i /\ events[i + 1].ev = "prompt")
        /\ (events[i].ev \in HostActions /\ Len(events) > i) =>
              /\ events[i].arg = None
              /\ events[i + 1].ev = IF RedrawEveryIteration THEN "draw" ELSE "prompt"
              /\ events[i + 1].node = events[i - 1].node
              /\ events[i + 1].depth = events[i].depth

\* without draw_menu_again: a level prompted again after a leaf action, and
\* a level drawn again after a submenu came back
C15_Witness ==
    /\ ~RedrawEveryIteration
    /\ \E i \in 1..Len(events) :
          events[i].ev \in HostActions /\ Len(events) > i /\ events[i + 1].ev = "prompt"
    /\ \E i \in 1..Len(events) :
          events[i].ev = "return" /\ Len(events) > i /\ events[i + 1].ev = "draw"

Selections == SelectSeq(events, LAMBDA e : e.ev = "select")

\* C16: children are in insertion order; the line i, 1 <= i <= number of
\* children, gives children[i] (1-based); each selection makes exactly one
\* call, of the exec_func of that child with the args and kwargs the child
\* was added with, and a host action runs only right after its own selection.
C16_ChoiceMapping ==
    /\ \A n \in 1..Len(nodes) :
          /\ \A k \in 1..(Len(nodes[n].children) - 1) : nodes[n].children[k] < nodes[n].children[k + 1]
          /\ \A i \in 1..Len(nodes[n].children) :
                request_option(n, Numeral(i)) = [raises |-> FALSE, opt |-> nodes[n].children[i]]
    /\ Len(calls) = Len(Selections)
    /\ \A k \in 1..Len(calls) :
          LET c == calls[k].node IN
          /\ calls[k].menu = Selections[k].node
          /\ c = Selections[k].arg
          /\ c = nodes[calls[k].menu].children[int_value(calls[k].line)]
          /\ calls[k].exec_func = nodes[c].exec_func
          /\ calls[k].args = IF nodes[c].title = <<"New Folder">> THEN <<"Temp">> ELSE <<>>
          /\ calls[k].kwargs = <<>>
    /\ \A i \in 1..Len(events) :
          /\ events[i].ev \in HostActions \cup {"return_previous_level", "quiting_level"} =>
                /\ events[i - 1].ev = "select"
                /\ events[i - 1].arg = events[i].node
                /\ events[i].ev = nodes[events[i].node].exec_func.fn
          /\ (events[i].ev = "select" /\ nodes[events[i].arg].exec_func.fn # "enter_next_level") =>
                /\ Len(events) > i
                /\ events[i + 1].node = events[i].arg
                /\ events[i + 1].ev = nodes[events[i].arg].exec_func.fn

\* "3" in the menu of New called new_folder("Temp")
C16_Witness ==
    \E k \in 1..Len(calls) :
        /\ calls[k].line = <<"3">>
        /\ calls[k].exec_func = NewFolder
        /\ calls[k].args = <<"Temp">>

\* the events of the confirmation of the candidate read at i
ConfirmEvents(i, ev) ==
    {j \in (i + 1)..Len(rlog) : rlog[j].level = 2 /\ rlog[j].ev = ev /\ LastOuterRead(j) = i}

\* C17 as stated: at most two confirmation prompts are issued for one candidate.
C17_Original ==
    \A i \in 1..Len(rlog) : IsRead(i, 1) => Cardinality(ConfirmEvents(i, "prompt")) <= 2

\* C17 amended: the confirmation asks again after every answer outside
\* {y, yes, n, no} (any letter case), however many there are: the prompts
\* issued for one candidate are one per invalid answer plus one for the
\* answer that ends the confirmation, and the confirmation only ever
\* returns an accepted answer.
C17_ConfirmationAsksUntilValid ==
    \A i \in 1..Len(rlog) :
        /\ IsRead(i, 1) =>
              /\ Cardinality(ConfirmEvents(i, "prompt"))
                    = Cardinality(ConfirmEvents(i, "again")) + Cardinality(ConfirmEvents(i, "return"))
              /\ Cardinality(ConfirmEvents(i, "return")) <= 1
              /\ ConfirmEvents(i, "error") = {}
        /\ (rlog[i].level = 2 /\ rlog[i].ev = "again") =>
              /\ confirm_check(rlog[i].val) = "False"
              /\ Len(rlog) = i => (Len(req) = 2 /\ phase = "run")
              /\ Len(rlog) > i => rlog[i + 1] = ReqEvent("prompt", 2, EmptyLine, FALSE)
        /\ (rlog[i].level = 2 /\ rlog[i].ev = "return") =>
              /\ rlog[i].ok
              /\ confirm_check(rlog[i].val) = "True"

\* a third confirmation prompt for the same candidate
C17_Witness ==
    \E i \in 1..Len(rlog) : IsRead(i, 1) /\ Cardinality(ConfirmEvents(i, "prompt")) = 3

\* C18: from the call of start_loop on, no step changes a node (children,
\* title, exec_func, args, kwargs, is_root, menu_config) or a MenuConfig dict.
C18_Step ==
    (phase # "build" \/ phase' # "build") => (nodes' = nodes /\ menu_configs' = menu_configs)

C18_TraversalIsReadOnly == [][C18_Step]_vars

\* a traversal with a submenu entered and left has ended
C18_Witness ==
    /\ phase = "done"
    /\ events[Len(events)].ev = "bye"
    /\ \E i \in 1..Len(events) : events[i].ev = "return" /\ events[i].depth = 2

\* the answers C19 calls negative and affirmative: a letter case of n, no, y, yes
Negative(v) == str_lower(v) \in {<<"n">>, <<"n", "o">>}

Affirmative(v) == str_lower(v) \in {<<"y">>, <<"y", "e", "s">>}

\* C19: every confirmation answer that is n or no in any letter case
\* discards the candidate and makes the original prompt appear again, and a
\* candidate is checked or returned as accepted only after an answer that
\* is y or yes in some letter case.
C19_AnswersAreCaseInsensitive ==
    \A i \in 1..Len(rlog) :
        (IsRead(i, 2) /\ (Negative(rlog[i].val) \/ Affirmative(rlog[i].val))) =>
            /\ Len(rlog) >= i + 2
            /\ rlog[i + 1] = ReqEvent("check", 2, rlog[i].val, TRUE)
            /\ rlog[i + 2] = ReqEvent("return", 2, rlog[i].val, TRUE)
            /\ Negative(rlog[i].val) =>
                  IF Len(rlog) = i + 2
                  THEN phase = "run" /\ Len(req) = 1 /\ ~result.done
                  ELSE rlog[i + 3] = ReqEvent("prompt", 1, EmptyLine, FALSE)
            /\ (Len(rlog) > i + 2 /\ rlog[i + 3].ev \in {"check", "return"}) =>
                  Affirmative(rlog[i].val)

HasParent(m) == \E p \in 1..Len(nodes) : \E k \in 1..Len(nodes[p].children) : nodes[p].children[k] = m

RECURSIVE IsBelow(_, _, _)
\* m is n or is reached from n through children lists
IsBelow(m, n, fuel) ==
    \/ m = n
    \/ fuel > 0 /\ HasParent(m) /\ IsBelow(ParentOf(m), n, fuel - 1)

IsExitLeaf(m) == nodes[m].exec_func.fn \in {"return_previous_level", "quiting_level"}

\* the subtree of n holds neither a RETURN nor a QUIT leaf
NoExitBelow(n) == \A m \in 1..Len(nodes) : IsBelow(m, n, Len(nodes)) => ~IsExitLeaf(m)

\* the selection at i ends the whole loop: a QUIT leaf at any depth, a RETURN leaf in the root's menu
EndsLoop(i) ==
    \/ events[i].ev = "quiting_level"
    \/ events[i].ev = "return_previous_level" /\ events[i].depth = 1

\* C20: start_loop on the root returns exactly when a QUIT leaf was selected
\* at some level or a RETURN leaf in the root's own menu: a returned loop has
\* such a selection as its last one, such a selection is followed by returns
\* only, and a loop that has prompted in a level whose subtree holds neither
\* kind of leaf has not returned.
C20_LoopEndsOnlyByExitLeaves ==
    /\ (phase = "done" /\ Len(events) > 0 /\ events[Len(events)].ev = "bye") =>
          \E i \in 1..Len(events) :
              /\ EndsLoop(i)
              /\ Len(events) = i + events[i].depth + 1
    /\ \A i \in 1..Len(events) :
          EndsLoop(i) =>
              /\ \A j \in (i + 1)..Len(events) : events[j].ev \in {"return", "bye"}
              /\ \/ phase = "done" /\ events[Len(events)].ev = "bye"
                 \/ phase = "run" /\ Len(frames) > 0 /\ ~loop_continues(Top.state)
    /\ \A i \in 1..Len(events) :
          (events[i].ev = "prompt" /\ NoExitBelow(events[i].node)) => phase # "done"

\* the loop returned through a RETURN leaf of the root's menu after a submenu was entered and left
C20_Witness ==
    /\ phase = "done"
    /\ \E i \in 1..Len(events) : events[i].ev = "return_previous_level" /\ events[i].depth = 2
    /\ \E i \in 1..Len(events) : events[i].ev = "return_previous_level" /\ events[i].depth = 1

\* a level without exit leaves below it was entered and every input was used there
C20_InsideClosedLevel ==
    /\ phase = "run" /\ inputs = MaxInputs
    /\ Len(frames) = 2 /\ NoExitBelow(Top.node)
    /\ \E m \in 1..Len(nodes) : IsExitLeaf(m)

====
